---------------------------- MODULE Spec2Model ----------------------------
(***************************************************************************)
(* Order manager of cpapi-app (src/app/manager.py): the cycle that loads   *)
(* the pending orders, maps their symbols to conids, takes a market data   *)
(* snapshot, decides each order's fill and nets the fill into the owning   *)
(* portfolio's positions.                                                  *)
(*                                                                         *)
(* Prices, quantities and values are integers here: the code holds them as *)
(* Python numbers (float(snapshot["84"]), order.quantity * fill_price) and *)
(* only adds, subtracts, multiplies and compares them.  None is the string *)
(* "None"; an order without a limit price carries NoLimit.                 *)
(***************************************************************************)
EXTENDS Integers, Sequences, FiniteSets, TLC

\* ------------------------------------------------------------ bounds
MaxOrders == 2
MaxPrice == 2
MaxQuantity == 2
MaxCycles == 2
MaxFills == 4
MaxSchedCycles == 21     \* iterations of run in the scheduler specification
MaxSchedOrders == 1      \* orders pending at the start of the scheduler specification

\* ------------------------------------------------- sets of the model
Portfolios == {"P1", "P2"}
Symbols == {"ABC", "XYZ", "NOP"}
Sides == {"BUY", "SELL"}
OrderTypes == {"MKT", "LMT", "STP"}
Prices == 1..MaxPrice
Quantities == 1..MaxQuantity
NoLimit == 1 - 1
NoFill == [kind |-> "None"]

\* The symbol directory (the "symbols" collection): symbol -> con_id.  "NOP" is a
\* symbol orders may name that has no document in it.
Directory == {"ABC", "XYZ"}
ContractConid(symbol) == IF symbol = "ABC" THEN 265598 ELSE 272093

VARIABLES
  ordersDB,          \* the orders collection: the set of pending Order documents
  portfolios,        \* the portfolios collection: id -> [orders, positions]
  orders,            \* self.__orders
  symbol_conid_map,  \* self.__symbol_conid_map
  symbol_price_map,  \* self.__symbol_price_map
  pc,                \* where OrderManager.run stands
  idx,               \* position of the for loop of __process_orders
  cur,               \* locals of the __update_positions call in flight
  num_requests,      \* run's num_requests
  budget,            \* cycles the model still lets run start
  net,               \* history: net[p][s] = filled BUY quantity - filled SELL quantity
  cycle_fills,       \* history: order id -> fill price, fills persisted in this cycle
  retired,           \* history: ids of the orders whose fill was persisted
  submitted,         \* number of order documents ever created (ids are 1..submitted)
  hist,              \* history of the netting specification: the fills applied so far
  quote_log,         \* history: what the quote source answered in this cycle
  cancels,           \* history: number of cancel_market_data_all calls made
  cycles_done,       \* history: number of iterations of run's loop completed
  interrupted        \* history: an interrupt signal has reached the process

vars == <<ordersDB, portfolios, orders, symbol_conid_map, symbol_price_map, pc,
          idx, cur, num_requests, budget, net, cycle_fills, retired, submitted, hist,
          quote_log, cancels, cycles_done, interrupted>>

\* ------------------------------------------------------------ helpers
EmptyMap == [s \in {} |-> NoLimit]

RECURSIVE SeqOfSet(_)
SeqOfSet(S) ==
  IF S = {} THEN <<>>
  ELSE LET m == CHOOSE x \in S : \A y \in S : x.id <= y.id
       IN <<m>> \o SeqOfSet(S \ {m})

RECURSIVE FilterRefs(_, _)
FilterRefs(refs, id) ==
  IF refs = <<>> THEN <<>>
  ELSE (IF Head(refs) # id THEN <<Head(refs)>> ELSE <<>>) \o FilterRefs(Tail(refs), id)

Ids(seq) == {seq[i] : i \in 1..Len(seq)}

\* --------------------------------------------------- order resolution
\* models.Position(symbol, quantity, side, conid, value) of __create_position
CreatePosition(order, fill_price) ==
  [symbol |-> order.symbol,
   quantity |-> order.quantity,
   side |-> order.side,
   conid |-> symbol_conid_map[order.symbol],
   value |-> order.quantity * fill_price]

\* fill_price = ask_price if order.side == "BUY" else bid_price
FillPrice(order, ask_price, bid_price) ==
  IF order.side = "BUY" THEN ask_price ELSE bid_price

\* __process_market_order: always fills
ProcessMarketOrder(order, ask_price, bid_price) ==
  [kind |-> "fill", price |-> FillPrice(order, ask_price, bid_price)]

\* __process_limit_order with both comparisons made strict on the wrong side
\* (>= and <=), so that a quote equal to the limit does not fill
ProcessLimitOrderStrict(order, ask_price, bid_price) ==
  IF order.side = "BUY" /\ ask_price >= order.limit_price THEN NoFill
  ELSE IF order.side = "SELL" /\ bid_price <= order.limit_price THEN NoFill
  ELSE [kind |-> "fill", price |-> FillPrice(order, ask_price, bid_price)]

\* __process_limit_order: the two early returns, then the fill
ProcessLimitOrder(order, ask_price, bid_price) ==
  IF order.side = "BUY" /\ ask_price > order.limit_price THEN NoFill
  ELSE IF order.side = "SELL" /\ bid_price < order.limit_price THEN NoFill
  ELSE [kind |-> "fill", price |-> FillPrice(order, ask_price, bid_price)]

\* __process_order_single with the default case returning instead of falling
\* back to the market order
ProcessOrderSingleRejectsUnknown(order, ask_price, bid_price) ==
  CASE order.order_type = "MKT" -> ProcessMarketOrder(order, ask_price, bid_price)
    [] order.order_type = "LMT" -> ProcessLimitOrder(order, ask_price, bid_price)
    [] OTHER -> NoFill

\* __process_order_single: match order.order_type
ProcessOrderSingle(order, ask_price, bid_price) ==
  CASE order.order_type = "MKT" -> ProcessMarketOrder(order, ask_price, bid_price)
    [] order.order_type = "LMT" -> ProcessLimitOrder(order, ask_price, bid_price)
    [] OTHER -> ProcessMarketOrder(order, ask_price, bid_price)

\* ----------------------------------------------------- position ledger
SideOfQuantity(quantity) ==
  IF quantity < 0 THEN "SELL" ELSE IF quantity > 0 THEN "BUY" ELSE "None"

UpdateExistingBuyPosition(existing_position, new_position) ==
  IF new_position.side = "BUY"
  THEN [existing_position EXCEPT !.quantity = @ + new_position.quantity,
                                 !.value = @ + new_position.value]
  ELSE [existing_position EXCEPT !.quantity = @ - new_position.quantity,
                                 !.value = @ - new_position.value]

UpdateExistingSellPosition(existing_position, new_position) ==
  IF new_position.side = "BUY"
  THEN [existing_position EXCEPT !.quantity = @ - new_position.quantity,
                                 !.value = @ - new_position.value]
  ELSE [existing_position EXCEPT !.quantity = @ + new_position.quantity,
                                 !.value = @ + new_position.value]

\* __update_existing_position: net by the existing side, then the side from the sign
UpdateExistingPosition(existing_position, new_position) ==
  LET updated_position ==
        IF existing_position.side = "BUY"
        THEN UpdateExistingBuyPosition(existing_position, new_position)
        ELSE UpdateExistingSellPosition(existing_position, new_position)
  IN [updated_position EXCEPT !.side = SideOfQuantity(updated_position.quantity)]

\* next((position for position in portfolio.positions if position.symbol == ...), None):
\* the index of the first entry of the symbol, 0 for None
ExistingPositionIndex(positions, symbol) ==
  IF \E i \in 1..Len(positions) : positions[i].symbol = symbol
  THEN CHOOSE i \in 1..Len(positions) :
         /\ positions[i].symbol = symbol
         /\ \A j \in 1..(i - 1) : positions[j].symbol # symbol
  ELSE 0

\* __add_new_position
AddNewPosition(new_position, positions) == Append(positions, new_position)

\* a variant of lines 187-192 that keeps the updated entry only
NetPositionsKeepsUpdatedOnly(positions, new_position) ==
  LET i == ExistingPositionIndex(positions, new_position.symbol)
  IN IF i # 0 /\ positions[i].side # "None"
     THEN <<UpdateExistingPosition(positions[i], new_position)>>
     ELSE AddNewPosition(new_position, positions)

\* lines 174-195 of __update_positions, on the positions of the portfolio read
NetPositions(positions, new_position) ==
  LET i == ExistingPositionIndex(positions, new_position.symbol)
  IN IF i # 0 /\ positions[i].side # "None"
     THEN LET updated_position == UpdateExistingPosition(positions[i], new_position)
          IN [j \in 1..Len(positions) |->
                IF positions[j].symbol = updated_position.symbol
                THEN updated_position ELSE positions[j]]
     ELSE AddNewPosition(new_position, positions)

\* line 260 with the filter inverted (o.id == order.id)
RemoveOrderRefInverted(order, portfolio) ==
  [portfolio EXCEPT !.orders = SelectSeq(@, LAMBDA ref : ref = order.id)]

\* line 260 of __remove_order
RemoveOrderRef(order, portfolio) ==
  [portfolio EXCEPT !.orders = FilterRefs(@, order.id)]

\* ------------------------------------------------------------- Init
OrderShapes ==
  [portfolio_id : Portfolios, symbol : Symbols, order_type : {"MKT", "STP"},
   side : Sides, quantity : Quantities, limit_price : {NoLimit}]
  \cup
  [portfolio_id : Portfolios, symbol : Symbols, order_type : {"LMT"},
   side : Sides, quantity : Quantities, limit_price : Prices]

MakeOrder(i, shape) ==
  [id |-> i, portfolio_id |-> shape.portfolio_id, symbol |-> shape.symbol,
   order_type |-> shape.order_type, side |-> shape.side,
   quantity |-> shape.quantity, limit_price |-> shape.limit_price]

\* A portfolio references exactly its pending orders and holds no position yet.
PortfolioOf(p, db) ==
  LET mine == SeqOfSet({o \in db : o.portfolio_id = p})
  IN [orders |-> [i \in 1..Len(mine) |-> mine[i].id], positions |-> <<>>]

\* The history of the quote source in one cycle: the number of calls of
\* market_data_snapshot, whether the call raised, the complete quotes it returned
\* for requested identifiers, the symbols whose snapshot lacked a field, the
\* symbols it returned no snapshot for, and whether it returned a snapshot of an
\* identifier that was not requested.
NoQuoteCall ==
  [calls |-> 0, raised |-> FALSE, usable |-> EmptyMap, lacking |-> {}, absent |-> {},
   foreign |-> FALSE]

InitEngine ==
  /\ orders = <<>>
  /\ symbol_conid_map = EmptyMap
  /\ symbol_price_map = EmptyMap
  /\ pc = "update_orders"
  /\ idx = 1
  /\ cur = NoFill
  /\ num_requests = 0
  /\ net = [p \in Portfolios |-> [s \in Symbols |-> 0]]
  /\ cycle_fills = EmptyMap
  /\ retired = {}
  /\ hist = <<>>
  /\ quote_log = NoQuoteCall
  /\ cancels = 0
  /\ cycles_done = 0
  /\ interrupted = FALSE

Init ==
  /\ \E k \in 0..MaxOrders : \E f \in [1..k -> OrderShapes] :
       /\ ordersDB = {MakeOrder(i, f[i]) : i \in 1..k}
       /\ submitted = k
  /\ portfolios = [p \in Portfolios |-> PortfolioOf(p, ordersDB)]
  /\ budget = MaxCycles
  /\ InitEngine

\* ---------------------------------------------------------- the cycle
\* __update_orders
UpdateOrders ==
  /\ pc = "update_orders"
  /\ budget > 0
  /\ budget' = budget - 1
  /\ orders' = SeqOfSet(ordersDB)
  /\ cycle_fills' = EmptyMap
  /\ quote_log' = NoQuoteCall
  /\ pc' = "map_orders_to_conids"
  /\ UNCHANGED <<ordersDB, portfolios, symbol_conid_map, symbol_price_map, idx, cur,
                 num_requests, net, retired, submitted, hist, cancels, cycles_done,
                 interrupted>>

\* a variant of __map_orders_to_conids without line 47: the price map is kept
MapOrdersToConidsKeepsPrices ==
  /\ pc = "map_orders_to_conids"
  /\ symbol_conid_map' =
       IF Len(orders) = 0 THEN EmptyMap
       ELSE [s \in {orders[i].symbol : i \in 1..Len(orders)} \cap Directory |->
               ContractConid(s)]
  /\ pc' = "get_market_data_snapshots"
  /\ UNCHANGED <<ordersDB, portfolios, orders, symbol_price_map, idx, cur, num_requests,
                 budget, net, cycle_fills, retired, submitted, hist, quote_log,
                 cancels, cycles_done, interrupted>>

\* __map_orders_to_conids
MapOrdersToConids ==
  /\ pc = "map_orders_to_conids"
  /\ symbol_price_map' = EmptyMap
  /\ symbol_conid_map' =
       IF Len(orders) = 0 THEN EmptyMap
       ELSE [s \in {orders[i].symbol : i \in 1..Len(orders)} \cap Directory |->
               ContractConid(s)]
  /\ pc' = "get_market_data_snapshots"
  /\ UNCHANGED <<ordersDB, portfolios, orders, idx, cur, num_requests, budget, net,
                 cycle_fills, retired, submitted, hist, quote_log,
                 cancels, cycles_done, interrupted>>

\* What one snapshot of the response may carry: field "84" (the bid) and field
\* "86" (the ask), either of which may be missing.
SnapshotFields ==
  [has84 : {TRUE}, has86 : {TRUE}, bid : Prices, ask : Prices]
  \cup [has84 : {TRUE}, has86 : {FALSE}, bid : Prices, ask : {NoLimit}]
  \cup [has84 : {FALSE}, has86 : {TRUE}, bid : {NoLimit}, ask : Prices]
  \cup [has84 : {FALSE}, has86 : {FALSE}, bid : {NoLimit}, ask : {NoLimit}]

SymbolOfConid(conid) ==
  CHOOSE s \in DOMAIN symbol_conid_map : symbol_conid_map[s] = conid

\* a variant of the for loop without the has_fields test: a field that is missing
\* is recorded as NoLimit
RECURSIVE ApplySnapshotsRecordsPartial(_, _)
ApplySnapshotsRecordsPartial(snapshots, price_map) ==
  IF snapshots = <<>> THEN price_map
  ELSE LET snapshot == Head(snapshots)
           symbol == CHOOSE s \in DOMAIN symbol_conid_map :
                       symbol_conid_map[s] = snapshot.conidEx
       IN ApplySnapshotsRecordsPartial(Tail(snapshots),
            [s \in DOMAIN price_map \cup {symbol} |->
               IF s = symbol THEN [bid |-> snapshot.bid, ask |-> snapshot.ask]
               ELSE price_map[s]])

\* the for loop of __get_market_data_snapshots over the response
RECURSIVE ApplySnapshots(_, _)
ApplySnapshots(snapshots, price_map) ==
  IF snapshots = <<>> THEN price_map
  ELSE LET snapshot == Head(snapshots)
           symbol == SymbolOfConid(snapshot.conidEx)
       IN IF ~(snapshot.has84 /\ snapshot.has86)
          THEN ApplySnapshots(Tail(snapshots), price_map)
          ELSE ApplySnapshots(Tail(snapshots),
                 [s \in DOMAIN price_map \cup {symbol} |->
                    IF s = symbol THEN [bid |-> snapshot.bid, ask |-> snapshot.ask]
                    ELSE price_map[s]])

RECURSIVE SeqOfStrings(_)
SeqOfStrings(S) ==
  IF S = {} THEN <<>>
  ELSE LET m == CHOOSE x \in S : TRUE IN <<m>> \o SeqOfStrings(S \ {m})

\* The response of market_data_snapshot to a request for the identifiers of keys:
\* r[i] is the snapshot returned for keys[i], or NoSnapshot when none is returned.
NoSnapshot == [returned |-> FALSE]

Response(keys, r) ==
  SelectSeq([i \in 1..Len(keys) |->
               IF r[i] = NoSnapshot THEN NoSnapshot
               ELSE [conidEx |-> symbol_conid_map[keys[i]], has84 |-> r[i].has84,
                     has86 |-> r[i].has86, bid |-> r[i].bid, ask |-> r[i].ask]],
            LAMBDA snapshot : snapshot # NoSnapshot)

QuoteLogOf(keys, r) ==
  LET complete == {i \in 1..Len(keys) : r[i] # NoSnapshot /\ r[i].has84 /\ r[i].has86}
  IN [calls |-> quote_log.calls + 1, raised |-> FALSE,
      usable |-> [s \in {keys[i] : i \in complete} |->
                    LET i == CHOOSE j \in complete : keys[j] = s
                    IN [bid |-> r[i].bid, ask |-> r[i].ask]],
      lacking |-> {keys[i] : i \in {j \in 1..Len(keys) : r[j] # NoSnapshot} \ complete},
      absent |-> {keys[i] : i \in {j \in 1..Len(keys) : r[j] = NoSnapshot}},
      foreign |-> FALSE]

\* __get_market_data_snapshots, the call returning
GetMarketDataSnapshots ==
  /\ pc = "get_market_data_snapshots"
  /\ IF DOMAIN symbol_conid_map = {}
     THEN UNCHANGED <<symbol_price_map, quote_log>>
     ELSE LET keys == SeqOfStrings(DOMAIN symbol_conid_map)
          IN \E r \in [1..Len(keys) -> SnapshotFields \cup {NoSnapshot}] :
               /\ symbol_price_map' = ApplySnapshots(Response(keys, r), symbol_price_map)
               /\ quote_log' = QuoteLogOf(keys, r)
  /\ pc' = "process_orders"
  /\ idx' = 1
  /\ UNCHANGED <<ordersDB, portfolios, orders, symbol_conid_map, cur, num_requests,
                 budget, net, cycle_fills, retired, submitted, hist, cancels,
                 cycles_done, interrupted>>

\* a variant without the try / except around market_data_snapshot
GetMarketDataSnapshotsFailsUncaught ==
  /\ pc = "get_market_data_snapshots"
  /\ DOMAIN symbol_conid_map # {}
  /\ quote_log' = [quote_log EXCEPT !.calls = @ + 1, !.raised = TRUE]
  /\ pc' = "crashed"
  /\ UNCHANGED <<ordersDB, portfolios, orders, symbol_conid_map, symbol_price_map, idx,
                 cur, num_requests, budget, net, cycle_fills, retired, submitted, hist,
                 cancels, cycles_done, interrupted>>

\* __get_market_data_snapshots, market_data_snapshot raising: logged, return None
GetMarketDataSnapshotsFails ==
  /\ pc = "get_market_data_snapshots"
  /\ DOMAIN symbol_conid_map # {}
  /\ quote_log' = [quote_log EXCEPT !.calls = @ + 1, !.raised = TRUE]
  /\ pc' = "process_orders"
  /\ idx' = 1
  /\ UNCHANGED <<ordersDB, portfolios, orders, symbol_conid_map, symbol_price_map, cur,
                 num_requests, budget, net, cycle_fills, retired, submitted, hist,
                 cancels, cycles_done, interrupted>>

\* one iteration of the for loop of __process_orders whose order has no market data
SkipOrder ==
  /\ pc = "process_orders"
  /\ idx <= Len(orders)
  /\ orders[idx].symbol \notin DOMAIN symbol_price_map
  /\ idx' = idx + 1
  /\ UNCHANGED <<ordersDB, portfolios, orders, symbol_conid_map, symbol_price_map, pc,
                 cur, num_requests, budget, net, cycle_fills, retired, submitted, hist, quote_log,
                 cancels, cycles_done, interrupted>>

\* one iteration of the for loop: __process_order_single, up to and including the
\* read of the portfolio and the netting in memory (lines 169-195)
ProcessOrder ==
  /\ pc = "process_orders"
  /\ idx <= Len(orders)
  /\ orders[idx].symbol \in DOMAIN symbol_price_map
  /\ LET order == orders[idx]
         ask_price == symbol_price_map[order.symbol].ask
         bid_price == symbol_price_map[order.symbol].bid
         decision == ProcessOrderSingle(order, ask_price, bid_price)
     IN IF decision.kind = "fill"
        THEN LET new_position == CreatePosition(order, decision.price)
                 portfolio == portfolios[order.portfolio_id]
             IN /\ cur' = [kind |-> "fill", order |-> order, price |-> decision.price,
                           portfolio |-> [portfolio EXCEPT !.positions =
                                            NetPositions(@, new_position)]]
                /\ pc' = "remove_order"
                /\ idx' = idx
        ELSE /\ idx' = idx + 1
             /\ UNCHANGED <<cur, pc>>
  /\ UNCHANGED <<ordersDB, portfolios, orders, symbol_conid_map, symbol_price_map,
                 num_requests, budget, net, cycle_fills, retired, submitted, hist, quote_log,
                 cancels, cycles_done, interrupted>>

\* __remove_order: the delete of the order document, then the filter of the references
RemoveOrder ==
  /\ pc = "remove_order"
  /\ ordersDB' = {o \in ordersDB : o.id # cur.order.id}
  /\ cur' = [cur EXCEPT !.portfolio = RemoveOrderRef(cur.order, @)]
  /\ pc' = "set_portfolio"
  /\ UNCHANGED <<portfolios, orders, symbol_conid_map, symbol_price_map, idx,
                 num_requests, budget, net, cycle_fills, retired, submitted, hist, quote_log,
                 cancels, cycles_done, interrupted>>

SignedQuantity(order) ==
  IF order.side = "BUY" THEN order.quantity ELSE 0 - order.quantity

\* line 197: the full overwrite of the portfolio document
SetPortfolio ==
  /\ pc = "set_portfolio"
  /\ portfolios' = [portfolios EXCEPT ![cur.order.portfolio_id] = cur.portfolio]
  /\ net' = [net EXCEPT ![cur.order.portfolio_id][cur.order.symbol] =
                          @ + SignedQuantity(cur.order)]
  /\ cycle_fills' = [i \in DOMAIN cycle_fills \cup {cur.order.id} |->
                       IF i = cur.order.id THEN cur.price ELSE cycle_fills[i]]
  /\ retired' = retired \cup {cur.order.id}
  /\ cur' = NoFill
  /\ idx' = idx + 1
  /\ pc' = "process_orders"
  /\ UNCHANGED <<ordersDB, orders, symbol_conid_map, symbol_price_map, num_requests,
                 budget, submitted, hist, quote_log,
                 cancels, cycles_done, interrupted>>

\* NUM_REQUESTS_BEFORE_CANCELLING_EXISTING_SUBS of run
NumRequestsBeforeCancellingExistingSubs == 10

\* a variant of lines 283-287 without the reset of num_requests (line 286)
EndCycleWithoutReset ==
  /\ pc = "process_orders"
  /\ idx > Len(orders)
  /\ num_requests' = num_requests + 1
  /\ cancels' =
       IF num_requests + 1 = NumRequestsBeforeCancellingExistingSubs
       THEN cancels + 1 ELSE cancels
  /\ cycles_done' = cycles_done + 1
  /\ pc' = "update_orders"
  /\ UNCHANGED <<ordersDB, portfolios, orders, symbol_conid_map, symbol_price_map, idx,
                 cur, budget, net, cycle_fills, retired, submitted, hist, quote_log,
                 interrupted>>

\* the end of an iteration of run's while loop (lines 283-287)
EndCycle ==
  /\ pc = "process_orders"
  /\ idx > Len(orders)
  /\ num_requests' =
       IF num_requests + 1 = NumRequestsBeforeCancellingExistingSubs
       THEN 0 ELSE num_requests + 1
  /\ cancels' =
       IF num_requests + 1 = NumRequestsBeforeCancellingExistingSubs
       THEN cancels + 1 ELSE cancels
  /\ cycles_done' = cycles_done + 1
  /\ pc' = "update_orders"
  /\ UNCHANGED <<ordersDB, portfolios, orders, symbol_conid_map, symbol_price_map, idx,
                 cur, budget, net, cycle_fills, retired, submitted, hist, quote_log,
                 interrupted>>

Next ==
  \/ UpdateOrders
  \/ MapOrdersToConids
  \/ GetMarketDataSnapshots
  \/ GetMarketDataSnapshotsFails
  \/ SkipOrder
  \/ ProcessOrder
  \/ RemoveOrder
  \/ SetPortfolio
  \/ EndCycle

Spec == Init /\ [][Next]_vars

\* ------------------------------------------- the portfolio write failing
\* line 197 raising: run catches KeyboardInterrupt only, so the exception leaves
\* __process_orders and run, and the order manager thread ends
SetPortfolioRaises ==
  /\ pc = "set_portfolio"
  /\ pc' = "crashed"
  /\ UNCHANGED <<ordersDB, portfolios, orders, symbol_conid_map, symbol_price_map, idx,
                 cur, num_requests, budget, net, cycle_fills, retired, submitted, hist, quote_log,
                 cancels, cycles_done, interrupted>>

NextFail ==
  \/ Next
  \/ SetPortfolioRaises

SpecFail == Init /\ [][NextFail]_vars

\* ------------------------------------- a concurrent writer of the stores
\* A peer outside the order manager submits an order: it creates the order document
\* and appends the reference to the portfolio, at any moment of the cycle.
ExternalSubmit ==
  /\ submitted < MaxOrders
  /\ pc # "netting"
  /\ \E shape \in OrderShapes :
       LET order == MakeOrder(submitted + 1, shape)
       IN /\ ordersDB' = ordersDB \cup {order}
          /\ portfolios' = [portfolios EXCEPT ![order.portfolio_id].orders =
                              Append(@, order.id)]
  /\ submitted' = submitted + 1
  /\ UNCHANGED <<orders, symbol_conid_map, symbol_price_map, pc, idx, cur,
                 num_requests, budget, net, cycle_fills, retired, hist, quote_log,
                 cancels, cycles_done, interrupted>>

NextConc ==
  \/ Next
  \/ ExternalSubmit

SpecConc == Init /\ [][NextConc]_vars

\* ------------------------------------------- the ledger on its own
\* The netting of __update_positions applied to any sequence of fills of one store.
PositionState(positions, symbol) ==
  LET es == SelectSeq(positions, LAMBDA e : e.symbol = symbol)
  IN IF es = <<>> THEN <<[quantity |-> 0, value |-> 0, side |-> "None"]>>
     ELSE [i \in 1..Len(es) |->
             [quantity |-> es[i].quantity, value |-> es[i].value, side |-> es[i].side]]

InitNetting ==
  /\ ordersDB = {}
  /\ submitted = 0
  /\ portfolios = [p \in Portfolios |-> PortfolioOf(p, {})]
  /\ budget = 0
  /\ orders = <<>>
  /\ symbol_conid_map = [s \in Directory |-> ContractConid(s)]
  /\ symbol_price_map = EmptyMap
  /\ pc = "netting"
  /\ idx = 1
  /\ cur = NoFill
  /\ num_requests = 0
  /\ net = [p \in Portfolios |-> [s \in Symbols |-> 0]]
  /\ cycle_fills = EmptyMap
  /\ retired = {}
  /\ hist = <<>>
  /\ quote_log = NoQuoteCall
  /\ cancels = 0
  /\ cycles_done = 0
  /\ interrupted = FALSE

NetFill ==
  /\ pc = "netting"
  /\ Len(hist) < MaxFills
  /\ \E shape \in {sh \in OrderShapes : sh.symbol \in Directory /\ sh.order_type = "MKT"},
        fill_price \in Prices :
       LET order == MakeOrder(Len(hist) + 1, shape)
           new_position == CreatePosition(order, fill_price)
           p == order.portfolio_id
       IN /\ portfolios' = [portfolios EXCEPT ![p].positions =
                              NetPositions(@, new_position)]
          /\ net' = [net EXCEPT ![p][order.symbol] = @ + SignedQuantity(order)]
          /\ hist' = Append(hist,
                       [portfolio_id |-> p, symbol |-> order.symbol,
                        side |-> order.side, quantity |-> new_position.quantity,
                        value |-> new_position.value,
                        before |-> PositionState(portfolios[p].positions, order.symbol)])
  /\ UNCHANGED <<ordersDB, orders, symbol_conid_map, symbol_price_map, pc, idx, cur,
                 num_requests, budget, cycle_fills, retired, submitted, quote_log,
                 cancels, cycles_done, interrupted>>

NextNetting == NetFill

SpecNetting == InitNetting /\ [][NextNetting]_vars

\* ------------------------------------------ the scheduler over many cycles
\* run with few orders pending, followed for more iterations than twice
\* NUM_REQUESTS_BEFORE_CANCELLING_EXISTING_SUBS.
InitSched ==
  /\ \E k \in 0..MaxSchedOrders : \E f \in [1..k -> OrderShapes] :
       /\ ordersDB = {MakeOrder(i, f[i]) : i \in 1..k}
       /\ submitted = k
  /\ portfolios = [p \in Portfolios |-> PortfolioOf(p, ordersDB)]
  /\ budget = MaxSchedCycles
  /\ InitEngine

SpecSched == InitSched /\ [][Next]_vars

\* -------------------------- a snapshot of an identifier not requested
\* a conidEx that is not a value of symbol_conid_map
ForeignConid == 76792991

\* __get_market_data_snapshots, the response holding, at position k, a snapshot
\* whose conidEx is ForeignConid: the snapshots before it are handled by the for
\* loop, then list.index raises ValueError at line 77, outside the try; run does
\* not catch it and the order manager thread ends.
GetMarketDataSnapshotsForeign ==
  /\ pc = "get_market_data_snapshots"
  /\ DOMAIN symbol_conid_map # {}
  /\ LET keys == SeqOfStrings(DOMAIN symbol_conid_map)
     IN \E r \in [1..Len(keys) -> SnapshotFields \cup {NoSnapshot}] :
          LET known == Response(keys, r)
          IN \E k \in 1..(Len(known) + 1) :
               LET snapshots == SubSeq(known, 1, k - 1)
                                  \o <<[conidEx |-> ForeignConid]>>
                                  \o SubSeq(known, k, Len(known))
                   handled == SubSeq(snapshots, 1, k - 1)
               IN /\ symbol_price_map' = ApplySnapshots(handled, symbol_price_map)
                  /\ quote_log' = [QuoteLogOf(keys, r) EXCEPT !.foreign = TRUE]
  /\ pc' = "crashed"
  /\ UNCHANGED <<ordersDB, portfolios, orders, symbol_conid_map, idx, cur, num_requests,
                 budget, net, cycle_fills, retired, submitted, hist, cancels,
                 cycles_done, interrupted>>

NextForeign ==
  \/ Next
  \/ GetMarketDataSnapshotsForeign

SpecForeign == InitSched /\ [][NextForeign]_vars

\* ------------------------------------------------- an interrupt signal
\* pc values of a scheduler that is inside the try of run
Running ==
  {"update_orders", "map_orders_to_conids", "get_market_data_snapshots",
   "process_orders", "remove_order", "set_portfolio"}

\* lines 288-290: KeyboardInterrupt raised in the thread that executes run, at any
\* statement of the try: the subscriptions are cancelled and run returns
KeyboardInterruptInRun ==
  /\ pc \in Running
  /\ ~interrupted
  /\ interrupted' = TRUE
  /\ cancels' = cancels + 1
  /\ pc' = "exited"
  /\ UNCHANGED <<ordersDB, portfolios, orders, symbol_conid_map, symbol_price_map, idx,
                 cur, num_requests, budget, net, cycle_fills, retired, submitted, hist,
                 quote_log, cycles_done>>

\* The signal arriving at the process __main__ starts: run executes in
\* order_manager_thread, and Python raises KeyboardInterrupt in the main thread
\* only.  The order manager is not notified: it goes on, or it is stopped where it
\* is when the interpreter shuts down, and the except clause of run is not executed.
InterruptOutsideRun ==
  /\ pc \in Running
  /\ ~interrupted
  /\ interrupted' = TRUE
  /\ pc' \in {pc, "killed"}
  /\ UNCHANGED <<ordersDB, portfolios, orders, symbol_conid_map, symbol_price_map, idx,
                 cur, num_requests, budget, net, cycle_fills, retired, submitted, hist,
                 quote_log, cancels, cycles_done>>

NextInterrupt ==
  \/ NextFail
  \/ KeyboardInterruptInRun
  \/ InterruptOutsideRun

SpecInterrupt == InitSched /\ [][NextInterrupt]_vars

\* ------------------------------- the engine and the ledger on its own
\* The runs of Spec together with the runs of SpecNetting: every fill the engine
\* writes and every fill of a longer history of one portfolio store.
InitFills == Init \/ InitNetting

NextFills ==
  \/ Next
  \/ NetFill

SpecFills == InitFills /\ [][NextFills]_vars

\* ================================================================ claims
Refs(p) == Ids(portfolios[p].orders)
Abs(n) == IF n < 0 THEN 0 - n ELSE n
Processed == {orders[j] : j \in 1..(IF pc = "process_orders" THEN idx - 1 ELSE 0)}
Filled(order) == order.id \in DOMAIN cycle_fills
HasQuote(order) == order.symbol \in DOMAIN symbol_price_map
CycleDone == pc = "process_orders" /\ idx > Len(orders)
PositionsOf(p) == {portfolios[p].positions[i] : i \in 1..Len(portfolios[p].positions)}

\* C1: for every portfolio and symbol the recorded position agrees with the net of
\* the retired orders (filled BUY quantity minus filled SELL quantity): BUY with
\* magnitude net when net > 0, SELL with magnitude |net| when net < 0, none with
\* quantity 0 when net = 0.
C1_NetMatchesRetiredOrders ==
  \A p \in Portfolios, s \in Symbols :
    LET n == net[p][s]
        entries == {e \in PositionsOf(p) : e.symbol = s}
    IN /\ entries = {} => n = 0
       /\ \A e \in entries :
            /\ n > 0 => e.side = "BUY" /\ Abs(e.quantity) = n
            /\ n < 0 => e.side = "SELL" /\ Abs(e.quantity) = 0 - n
            /\ n = 0 => e.side = "None" /\ e.quantity = 0

\* C2: every stored Position has the side of the sign of its stored quantity:
\* quantity > 0 gives BUY, quantity < 0 gives SELL, quantity = 0 gives none.
C2_SideMatchesSign ==
  \A p \in Portfolios : \A e \in PositionsOf(p) :
    /\ e.quantity > 0 => e.side = "BUY"
    /\ e.quantity < 0 => e.side = "SELL"
    /\ e.quantity = 0 => e.side = "None"

\* C3: when the portfolio write that ends a fill fails, the order of that fill is
\* still in the pending-order store; and outside a fill in progress no order is
\* absent from the pending-order store unless its fill was persisted.
C3_OrderPendingAfterFailedWrite ==
  /\ (pc = "crashed" /\ cur.kind = "fill") => cur.order \in ordersDB
  /\ pc # "set_portfolio" =>
       \A id \in 1..submitted : (\A o \in ordersDB : o.id # id) => id \in retired

\* C4: a failure of the portfolio write does not end the scheduler: the order
\* manager is never left terminated by it.
C4_SchedulerSurvivesFailedWrite ==
  ~(pc = "crashed" /\ cur.kind = "fill")

\* C5: of the orders a cycle has processed, one that filled is absent from the
\* pending-order store and from its portfolio's references, and one that did not
\* fill is present, unchanged, in both.
C5_FilledAbsentUnfilledPresent ==
  \A order \in Processed :
    /\ Filled(order) =>
         /\ \A o \in ordersDB : o.id # order.id
         /\ order.id \notin Refs(order.portfolio_id)
    /\ ~Filled(order) =>
         /\ order \in ordersDB
         /\ order.id \in Refs(order.portfolio_id)

\* C5 witness: a cycle has ended in which one order of a portfolio filled and
\* another order of the same portfolio did not.
C5_Witness ==
  /\ CycleDone
  /\ \E a \in Processed, b \in Processed :
       /\ a.portfolio_id = b.portfolio_id
       /\ Filled(a) /\ ~Filled(b)
       /\ b.id \in Refs(b.portfolio_id)

\* C6: an order of type MKT, or of an unrecognized type, whose symbol has a quote
\* in the cycle is filled in that cycle, at the ask when it buys and at the bid
\* when it sells, whatever was processed before it.
C6_MarketOrderFills ==
  \A order \in Processed :
    (order.order_type # "LMT" /\ HasQuote(order)) =>
      /\ Filled(order)
      /\ order \notin ordersDB
      /\ cycle_fills[order.id] =
           IF order.side = "BUY" THEN symbol_price_map[order.symbol].ask
           ELSE symbol_price_map[order.symbol].bid

\* C6 witness: a cycle has ended in which an order of an unrecognized type, processed
\* after another order, sold at a bid that differs from the ask.
C6_Witness ==
  /\ CycleDone
  /\ \E order \in Processed :
       /\ order.order_type = "STP" /\ order.side = "SELL" /\ order.id > 1
       /\ Filled(order)
       /\ symbol_price_map[order.symbol].bid # symbol_price_map[order.symbol].ask

\* C7: a LIMIT order with a quote fills in the cycle exactly when the quote
\* satisfies its limit (BUY: ask <= limit, at the ask; SELL: bid >= limit, at the
\* bid), and an order that does not fill stays pending.
C7_LimitOrderFillsIffLimitMet ==
  \A order \in Processed :
    (order.order_type = "LMT" /\ HasQuote(order)) =>
      LET ask == symbol_price_map[order.symbol].ask
          bid == symbol_price_map[order.symbol].bid
      IN /\ order.side = "BUY" =>
              /\ Filled(order) <=> ask <= order.limit_price
              /\ Filled(order) => cycle_fills[order.id] = ask
         /\ order.side = "SELL" =>
              /\ Filled(order) <=> bid >= order.limit_price
              /\ Filled(order) => cycle_fills[order.id] = bid
         /\ ~Filled(order) => order \in ordersDB

\* C7 witness: a cycle has ended in which a LIMIT BUY filled at an ask equal to its
\* limit and a LIMIT SELL stayed pending because the bid was below its limit.
C7_Witness ==
  /\ CycleDone
  /\ \E a \in Processed, b \in Processed :
       /\ a.order_type = "LMT" /\ a.side = "BUY" /\ Filled(a)
       /\ symbol_price_map[a.symbol].ask = a.limit_price
       /\ b.order_type = "LMT" /\ b.side = "SELL" /\ HasQuote(b) /\ ~Filled(b)
       /\ symbol_price_map[b.symbol].bid < b.limit_price

\* C8: a BUY fill of quantity Q and value V followed by a SELL fill of the same Q
\* and V, for the same symbol and portfolio, returns the position of that symbol to
\* the quantity, value and side it had before the two fills.
C8_BuyThenSellRoundTrip ==
  Len(hist) >= 2 =>
    LET a == hist[Len(hist) - 1]
        b == hist[Len(hist)]
    IN (/\ a.side = "BUY" /\ b.side = "SELL"
        /\ a.portfolio_id = b.portfolio_id /\ a.symbol = b.symbol
        /\ a.quantity = b.quantity /\ a.value = b.value)
       => PositionState(portfolios[a.portfolio_id].positions, a.symbol) = a.before

\* C9: a portfolio never holds two Position entries of the same symbol.
C9_PositionsUniqueBySymbol ==
  \A p \in Portfolios :
    \A i \in 1..Len(portfolios[p].positions), j \in 1..Len(portfolios[p].positions) :
      portfolios[p].positions[i].symbol = portfolios[p].positions[j].symbol => i = j

\* C10: a write of a concurrent peer to a portfolio is never lost to the ledger's
\* overwrite: every order document a peer created keeps its reference in its
\* portfolio for as long as the order is pending.
C10_ExternalWriteNotLost ==
  \A order \in ordersDB : order.id \in Refs(order.portfolio_id)


\* C11: in every state a peer of the stores can observe, a failed store operation
\* included, every order reference in a portfolio's order list is the id of an
\* order that is still in the pending-order store: the order document and its
\* reference are removed together or not at all.
C11_ReferencesPointToPendingOrders ==
  \A p \in Portfolios : \A id \in Refs(p) : \E order \in ordersDB : order.id = id


\* C12: when the call of the quote source raises in a cycle, the failure is
\* swallowed: the source is called once in that cycle, the quote cache of the cycle
\* is empty, no order is filled or removed in the cycle (every order the cycle
\* loaded is still in the store and still referenced by its portfolio), and the
\* scheduler stays in its loop, on its way to the next cycle.
C12_QuoteFailureSwallowed ==
  quote_log.raised =>
    /\ quote_log.calls = 1
    /\ symbol_price_map = EmptyMap
    /\ cycle_fills = EmptyMap
    /\ cur = NoFill
    /\ \A i \in 1..Len(orders) :
         orders[i] \in ordersDB /\ orders[i].id \in Refs(orders[i].portfolio_id)
    /\ pc \in {"process_orders", "update_orders"}

C12_Witness ==
  /\ quote_log.raised
  /\ pc = "update_orders"
  /\ budget > 0
  /\ Len(orders) = MaxOrders
  /\ \E i \in 1..Len(orders) : orders[i].order_type = "MKT"


\* C13: in every Position entry, after any sequence of fills, net quantity and net
\* value have the same direction: the value is never negative while the quantity
\* is positive and never positive while the quantity is negative.
C13_QuantityAndValueSameDirection ==
  \A p \in Portfolios : \A e \in PositionsOf(p) :
    /\ e.quantity > 0 => e.value >= 0
    /\ e.quantity < 0 => e.value <= 0


\* C14: an order whose symbol has no usable quote in the cycle (no directory entry,
\* a quote lacking the bid or the ask, or no quote returned) is skipped without
\* side effect: the step that handles it leaves the order store and every
\* portfolio unchanged, raises nothing and moves on to the next order, and the
\* order stays in the store for the next cycle.  A quote lacking either field is
\* never recorded in the quote cache, not even partially.
NoUsableQuoteRecorded ==
  pc \in {"process_orders", "remove_order", "set_portfolio"} =>
    /\ \A s \in quote_log.lacking \cup quote_log.absent : s \notin DOMAIN symbol_price_map
    /\ \A s \in DOMAIN symbol_price_map : s \in Directory

SkippedWithoutSideEffect ==
  (pc = "process_orders" /\ idx <= Len(orders) /\ ~HasQuote(orders[idx])) =>
    /\ ordersDB' = ordersDB
    /\ portfolios' = portfolios
    /\ orders[idx] \in ordersDB'
    /\ pc' = "process_orders"
    /\ idx' = idx + 1
    /\ cycle_fills' = cycle_fills

C14_UnquotedOrderSkipped ==
  [][NoUsableQuoteRecorded /\ NoUsableQuoteRecorded' /\ SkippedWithoutSideEffect]_vars

C14_Witness ==
  /\ CycleDone
  /\ cycles_done = 1
  /\ \E i, j \in 1..Len(orders) :
       /\ orders[i].symbol \notin Directory
       /\ orders[j].symbol \in quote_log.lacking
       /\ orders[i] \in ordersDB /\ orders[j] \in ordersDB


\* The table of the ledger as the specification words it: the fill is netted against
\* the Position of its symbol that has a side (existing BUY + BUY and existing
\* SELL + SELL add quantity and value, existing BUY + SELL and existing SELL + BUY
\* subtract them, the side follows the sign of the new quantity, zero gives side
\* none and the entry stays); without such a Position the fill is appended.
LedgerTable(positions, fill) ==
  LET held == {i \in 1..Len(positions) :
                 positions[i].symbol = fill.symbol /\ positions[i].side # "None"}
  IN IF held = {} THEN Append(positions, fill)
     ELSE LET i == CHOOSE h \in held : \A g \in held : h <= g
              sign == IF positions[i].side = fill.side THEN 1 ELSE 0 - 1
              quantity == positions[i].quantity + sign * fill.quantity
              value == positions[i].value + sign * fill.value
          IN [positions EXCEPT ![i] =
                [symbol |-> fill.symbol, conid |-> positions[i].conid,
                 quantity |-> quantity, value |-> value,
                 side |-> IF quantity > 0 THEN "BUY"
                          ELSE IF quantity < 0 THEN "SELL" ELSE "None"]]

\* C15: for every existing list of positions and every fill, the positions the
\* ledger writes are those of the table of the specification applied to the
\* positions it read.
C15_NettingEqualsLedgerTable ==
  [][Len(hist') > Len(hist) =>
       LET fill == hist'[Len(hist')]
           p == fill.portfolio_id
       IN portfolios'[p].positions =
            LedgerTable(portfolios[p].positions,
                        [symbol |-> fill.symbol, conid |-> ContractConid(fill.symbol),
                         quantity |-> fill.quantity, value |-> fill.value,
                         side |-> fill.side])]_vars


\* C16: a fill changes exactly one Position entry, added or updated, of exactly one
\* portfolio, that of the order: the other entries of that portfolio, and the
\* positions and order lists of every other portfolio, are left as they were, no
\* existing entry is removed, and no step other than a fill changes a position.
OneEntryChanged(old, new) ==
  \/ /\ Len(new) = Len(old) + 1
     /\ \A i \in 1..Len(old) : new[i] = old[i]
  \/ /\ Len(new) = Len(old)
     /\ Cardinality({i \in 1..Len(old) : new[i] # old[i]}) = 1

FillStep ==
  \/ pc = "set_portfolio" /\ pc' = "process_orders"
  \/ pc = "netting" /\ Len(hist') > Len(hist)

FillFrame ==
  LET p == IF pc = "netting" THEN hist'[Len(hist')].portfolio_id
           ELSE cur.order.portfolio_id
  IN /\ OneEntryChanged(portfolios[p].positions, portfolios'[p].positions)
     /\ \A q \in Portfolios \ {p} : portfolios'[q] = portfolios[q]

C16_FillChangesOneEntry ==
  [][IF FillStep THEN FillFrame
     ELSE \A p \in Portfolios : portfolios'[p].positions = portfolios[p].positions]_vars

C16_Witness ==
  /\ pc = "netting"
  /\ Len(hist) = MaxFills
  /\ LET fill == hist[Len(hist)]
         p == fill.portfolio_id
     IN /\ fill.before[1].side # "None"
        /\ \E e \in PositionsOf(p) : e.symbol # fill.symbol
        /\ \E q \in Portfolios \ {p} : PositionsOf(q) # {}


\* C17: the quote cache is made anew in every cycle and nothing is carried over:
\* while a cycle handles its orders the cache holds exactly the complete quotes the
\* quote source returned in that cycle, and every order filled in the cycle has a
\* quote of its symbol among them, so a symbol quoted in an earlier cycle only
\* cannot cause a fill.
C17_QuotesOfThisCycleOnly ==
  /\ pc \in {"process_orders", "remove_order", "set_portfolio"} =>
       symbol_price_map = quote_log.usable
  /\ cur.kind = "fill" => cur.order.symbol \in DOMAIN quote_log.usable
  /\ \A i \in 1..Len(orders) :
       Filled(orders[i]) => orders[i].symbol \in DOMAIN quote_log.usable

C17_Witness ==
  /\ CycleDone
  /\ cycles_done = 1
  /\ cycle_fills = EmptyMap
  /\ \E i \in 1..Len(orders) :
       /\ orders[i].symbol \in Directory
       /\ ~HasQuote(orders[i])
       /\ orders[i] \in ordersDB
       /\ \E p \in Portfolios : net[p][orders[i].symbol] # 0


\* C18: cancel_market_data_all is called once after every tenth completed cycle and
\* at no other point of normal operation, and the counter of cycles is then reset
\* to 0: the number of calls made is the number of completed cycles divided by 10,
\* and the counter is the number of completed cycles modulo 10, so it is in 0..9
\* at the start of every cycle.
C18_CancelEveryTenthCycle ==
  /\ num_requests \in 0..(NumRequestsBeforeCancellingExistingSubs - 1)
  /\ num_requests = cycles_done % NumRequestsBeforeCancellingExistingSubs
  /\ cancels = cycles_done \div NumRequestsBeforeCancellingExistingSubs

C18_Witness ==
  /\ pc = "update_orders"
  /\ cycles_done = 2 * NumRequestsBeforeCancellingExistingSubs + 1
  /\ cancels = 2
  /\ num_requests = 1


\* C19: once an interrupt signal has arrived the scheduler starts no further cycle,
\* and whenever the scheduler loop ends, cancel_market_data_all is called exactly
\* once as it ends, after the last cycle.
C19_InterruptReleasesThenTerminates ==
  [][/\ interrupted => ~(pc = "update_orders" /\ pc' = "map_orders_to_conids")
     /\ (pc \in Running /\ pc' \notin Running) => cancels' = cancels + 1]_vars


\* C20: a quote returned with an instrument identifier that the resolver did not
\* map is attributed to no symbol: the quote cache holds nothing but quotes
\* returned for requested identifiers, each under its own symbol, no order is
\* filled without such a quote, and the complete quotes returned together with the
\* foreign one are all in the cache, each under its own symbol.
C20_ForeignQuoteRejected ==
  quote_log.foreign =>
    /\ \A s \in DOMAIN symbol_price_map :
         s \in DOMAIN quote_log.usable /\ symbol_price_map[s] = quote_log.usable[s]
    /\ \A i \in 1..Len(orders) :
         Filled(orders[i]) => orders[i].symbol \in DOMAIN quote_log.usable
    /\ \A s \in DOMAIN quote_log.usable :
         s \in DOMAIN symbol_price_map /\ symbol_price_map[s] = quote_log.usable[s]

=============================================================================
